---- MODULE Spec2Model ----
(***************************************************************************)
(* A model of neil_logger/universal_logger.py: the UniversalLogger facade, *)
(* its in-memory buffer, flush to the two MongoDB collections, the         *)
(* uncaught-exception hook and the capture_errors decorator.               *)
(*                                                                         *)
(* Strings the code formats are sequences of tokens, so that "the message  *)
(* names the callable" is a statement about the tokens.  Timestamps are    *)
(* left out of records and documents; a record's seq field stands for the  *)
(* identity of the dict object the code creates.                           *)
(***************************************************************************)
EXTENDS Naturals, Sequences, FiniteSets

\* ------------------------------------------------------------------ bounds
\* Records created in one run of the process (caps the serial counter).
MaxRecords == 3
\* Failures of the collaborators (a store write, a tracker report) in one run.
MaxFaults == 1

\* ------------------------------------------------------- the inputs' values
Instances == {1, 2}
NoInst == 0
Names == {"a", "b"}
Msgs == {"m"}
Vals == {"v"}
None == "None"
Funcs == {"job"}
Threads == {1, 2}

\* Exceptions the host's callables raise: a subclass of Exception and an
\* interrupt (a BaseException that is no Exception).
ValueErr == [cls |-> "ValueError", msg |-> "boom"]
Interrupt == [cls |-> "KeyboardInterrupt", msg |-> "intr"]
Raised == {ValueErr, Interrupt}
NoExc == [cls |-> "none", msg |-> "none"]
\* pymongo's error of a failed insert_one
StoreErr == [cls |-> "PyMongoError", msg |-> "insert failed"]
\* what calling a name the failed import never bound raises
NameErr(fn) == [cls |-> "NameError", msg |-> fn]
\* an error of the tracker's own report call
TrackerErr == [cls |-> "SentryError", msg |-> "report failed"]

\* `except Exception` catches the exception
IsException(e) == e.cls # "KeyboardInterrupt"
\* A hook that lets no exception through to the default handler.
NoInterruptCheck(e) == FALSE
\* issubclass(exc_type, KeyboardInterrupt)
IsKeyboardInterrupt(e) == e.cls = "KeyboardInterrupt"

VARIABLES
    name,            \* self.name of each instance
    run_id,          \* self.run_id of each instance
    handlerOwner,    \* logging's registry: the instance whose BufferHandler
                     \* (and console handler) the logger of a name holds
    sentryAvailable, \* SENTRY_AVAILABLE: the sentry_sdk import succeeded
    buffer,          \* self.buffer of each instance
    logColl,         \* the primary collection's documents, in write order
    errColl,         \* the error collection's documents, in write order
    excepthook,      \* sys.excepthook: the instance whose handle is installed
    atexit,          \* the exit callbacks registered and not yet run
    phase,           \* "running", "exiting" (callbacks run), "exited"
    nextSeq,         \* serial of the next record created
    faults,          \* collaborator failures so far
    emitted,         \* emission calls made through each instance since the last
                     \* call that was no emission
    baseLen,         \* each buffer's length after that call
    last,            \* what the last completed call did and returned
    pc,              \* each thread's position inside flush
    tlogs,           \* each thread's local `logs` inside flush
    drains           \* the result of every completed copy-and-clear, in order

vars == <<name, run_id, handlerOwner, sentryAvailable, buffer, logColl, errColl,
          excepthook, atexit, phase, nextSeq, faults, emitted, baseLen, last,
          pc, tlogs, drains>>

config == <<name, run_id, handlerOwner, sentryAvailable>>
threadVars == <<pc, tlogs, drains>>

\* ------------------------------------------------------------ pure helpers
Last(s) == s[Len(s)]
Front(s) == SubSeq(s, 1, Len(s) - 1)

\* str(exc_type), str(exc_value), traceback.format_exc()
StrOfType(e) == <<"<class '", e.cls, "'>">>
StrOfExc(e) == <<e.msg>>
FormatExc(e) == <<"Traceback (most recent call last):", e.cls, ": ", e.msg>>
\* f"[{func.__name__}] {e}"
WrapperMessage(f, e) == <<"[", f, "] ", e.msg>>

\* The facade method that emits at a level: logging reports it as funcName,
\* the first frame outside the logging package.
MethodOf(level) ==
    CASE level = "DEBUG" -> "debug"
      [] level = "INFO" -> "info"
      [] level = "WARNING" -> "warning"
      [] level = "ERROR" -> "error"
      [] level = "CRITICAL" -> "critical"
Levels == {"DEBUG", "INFO", "WARNING", "ERROR", "CRITICAL"}
\* The levels the model's callers emit at: debug, info and warning are the same
\* one-line method, so INFO stands for the three.
EmitLevels == {"INFO", "CRITICAL"}

\* The dict BufferHandler.emit builds; o is the instance the handler closes over.
EmitRecord(o, level, fn, message, seq) ==
    [seq |-> seq, level |-> level, module |-> name[o], function |-> fn,
     message |-> message, run_id |-> run_id[o]]

\* A wrapper that stamps its record with the run_id of the instance whose
\* handlers serve the name.
WrapperRecordOfOwner(i, f, e, seq) ==
    [seq |-> seq, level |-> "ERROR", module |-> name[i], function |-> f,
     message |-> StrOfExc(e), traceback |-> FormatExc(e),
     run_id |-> run_id[handlerOwner[name[i]]]]

\* The dict capture_errors' wrapper builds.
WrapperRecord(i, f, e, seq) ==
    [seq |-> seq, level |-> "ERROR", module |-> name[i], function |-> f,
     message |-> StrOfExc(e), traceback |-> FormatExc(e), run_id |-> run_id[i]]

\* self.logger.<level>(msg) of instance i: the logger of name[i] hands the
\* record to the handlers it holds, which append to their owner's buffer.
LoggerCall(buf, i, level, fn, message, seq) ==
    LET o == handlerOwner[name[i]] IN
    IF o = NoInst THEN buf
    ELSE [buf EXCEPT ![o] = Append(@, EmitRecord(o, level, fn, message, seq))]

\* Console lines one logger call prints: one per StreamHandler of the logger.
ConsoleLines(i) == IF handlerOwner[name[i]] = NoInst THEN 0 ELSE 1

\* capture_exception(e) / capture_message(msg): the exception the call raises,
\* NoExc when it returns.  The name is unbound when the import failed.
TrackerCall(fn, trackerOk) ==
    IF ~sentryAvailable THEN NameErr(fn)
    ELSE IF trackerOk THEN NoExc ELSE TrackerErr

\* A collaborator may fail while the run's failures are below the bound.
MayFail == faults < MaxFaults
\* The tracker's answer is an input only where the tracker is called.
TrackerInput(trackerOk) == trackerOk \/ (sentryAvailable /\ MayFail)
Fault(failed) == faults' = IF failed THEN faults + 1 ELSE faults

IsErrorLevel(r) == r.level \in {"ERROR", "CRITICAL"}
IsErrorOnly(r) == r.level = "ERROR"
\* A filter that forgets CRITICAL.
ErrorsWithoutCritical(logs) == SelectSeq(logs, IsErrorOnly)
\* errors = [r for r in logs if r["level"] in {"ERROR", "CRITICAL"}]
Errors(logs) == SelectSeq(logs, IsErrorLevel)

\* A flush that never returns early.
NeverSkips(logs) == FALSE
\* if not self.buffer: return
FlushSkips(logs) == logs = <<>>

\* A flush that copies and forgets to clear.
ClearForgotten(buf, i) == buf
\* self.buffer.clear()
ClearBuffer(buf, i) == [buf EXCEPT ![i] = <<>>]

\* A flush that writes only the ERROR and CRITICAL records to the primary
\* collection.
RunBatchOfErrors(i, logs) == [run_id |-> run_id[i], logs |-> Errors(logs)]
\* {"run_id": self.run_id, "timestamp": ..., "logs": logs}
RunBatch(i, logs) == [run_id |-> run_id[i], logs |-> logs]
ErrorBatch(i, errors) == [run_id |-> run_id[i], errors |-> errors]
\* A hook that files the failure as an error batch of one new record.
FailureAsErrorBatch(i, e) == ErrorBatch(i, <<WrapperRecord(i, "handle", e, nextSeq)>>)
\* doc = {"run_id": ..., "error_type": ..., "error": ..., "traceback": ..., "script": ...}
UncaughtErrorDocument(i, e) ==
    [run_id |-> run_id[i], error_type |-> StrOfType(e), error |-> StrOfExc(e),
     traceback |-> FormatExc(e), script |-> name[i]]

Returned(v) == [kind |-> "return", val |-> v, exc |-> NoExc]
Raises(e) == [kind |-> "raise", val |-> None, exc |-> e]
Outcome(e, v) == IF e = NoExc THEN Returned(v) ELSE Raises(e)

\* A wrapper that calls func and forgets to return its value.
ReturnDropped(out) == IF out.kind = "return" THEN Returned(None) ELSE out
\* return func(*args, **kwargs): what func returns or raises leaves the wrapper.
PassThrough(out) == out

Lens(buf) == [j \in Instances |-> Len(buf[j])]

\* The record of a completed call: its operation, instance and argument, the
\* buffers' lengths before it, its result, the insert_one calls it issued (with
\* the store's answer), its tracker reports, the console lines it printed and
\* whether it handed the exception to sys.__excepthook__.
Call(op, i, arg, result, writes, reports, console, dflt) ==
    [op |-> op, inst |-> i, arg |-> arg, preLen |-> Lens(buffer), result |-> result,
     writes |-> writes, reports |-> reports, console |-> console, dflt |-> dflt]

\* The tally of emission calls: an emission call through i counts, any other
\* call starts the count again from the buffers it leaves.
CountEmission(i) ==
    /\ emitted' = [emitted EXCEPT ![i] = @ + 1]
    /\ baseLen' = baseLen
Recount ==
    /\ emitted' = [i \in Instances |-> 0]
    /\ baseLen' = Lens(buffer')

Write(coll, doc, ok) == [coll |-> coll, doc |-> doc, ok |-> ok]

\* ---------------------------------------------------------- construction
\* UniversalLogger.__init__ for instance i on the registry reg: the handlers
\* are added only when the logger of that name holds no StreamHandler yet.
Construct(reg, nm, i) ==
    IF reg[nm] = NoInst THEN [reg EXCEPT ![nm] = i] ELSE reg

\* A constructor that forgets to register its flush.
RegisterForgotten(callbacks, i) == callbacks
\* atexit.register(self.flush)
AtExitRegister(callbacks, i) == Append(callbacks, i)

Init ==
    /\ name \in [Instances -> Names]
    /\ name[1] = "a"
    /\ run_id = [i \in Instances |-> IF i = 1 THEN "r1" ELSE "r2"]
    /\ handlerOwner =
         Construct(Construct([n \in Names |-> NoInst], name[1], 1), name[2], 2)
    /\ sentryAvailable \in BOOLEAN
    /\ buffer = [i \in Instances |-> <<>>]
    /\ logColl = <<>>
    /\ errColl = <<>>
    /\ excepthook = NoInst
    /\ atexit = AtExitRegister(AtExitRegister(<<>>, 1), 2)
    /\ phase = "running"
    /\ nextSeq = 1
    /\ faults = 0
    /\ emitted = [i \in Instances |-> 0]
    /\ baseLen = [i \in Instances |-> 0]
    /\ last = [op |-> "init", inst |-> NoInst, arg |-> None,
               preLen |-> [j \in Instances |-> 0], result |-> Returned(None),
               writes |-> <<>>, reports |-> <<>>, console |-> 0,
               dflt |-> FALSE]
    /\ pc = [t \in Threads |-> "idle"]
    /\ tlogs = [t \in Threads |-> <<>>]
    /\ drains = <<>>

\* ------------------------------------------------------------- emission
\* debug, info, warning, critical: one logger call.
Emit(i, level, msg) ==
    /\ phase = "running"
    /\ nextSeq <= MaxRecords
    /\ level \in Levels \ {"ERROR"}
    /\ buffer' = LoggerCall(buffer, i, level, MethodOf(level), <<msg>>, nextSeq)
    /\ nextSeq' = nextSeq + 1
    /\ last' = Call(MethodOf(level), i, msg, Returned(None), <<>>, <<>>, ConsoleLines(i),
                    FALSE)
    /\ UNCHANGED <<config, logColl, errColl, excepthook, atexit, phase, faults,
                   threadVars>>
    /\ CountEmission(i)

\* error(msg, exc): the logger call, then capture_exception(exc) when exc is
\* given and capture_message(msg) otherwise.
Error(i, msg, exc, trackerOk) ==
    /\ phase = "running"
    /\ nextSeq <= MaxRecords
    /\ TrackerInput(trackerOk)
    /\ buffer' = LoggerCall(buffer, i, "ERROR", "error", <<msg>>, nextSeq)
    /\ nextSeq' = nextSeq + 1
    /\ LET fn == IF exc # NoExc THEN "capture_exception" ELSE "capture_message"
           t == TrackerCall(fn, trackerOk)
           what == IF exc # NoExc THEN exc ELSE [cls |-> "message", msg |-> msg]
       IN last' = Call("error", i, msg, Outcome(t, None), <<>>,
                       IF t = NoExc THEN <<what>> ELSE <<>>, ConsoleLines(i), FALSE)
    /\ Fault(~trackerOk)
    /\ UNCHANGED <<config, logColl, errColl, excepthook, atexit, phase, threadVars>>
    /\ CountEmission(i)

\* ---------------------------------------------------------------- flush
\* flush() of instance i, as one call on one thread.  fail names the insert_one
\* call the store fails, "none" when it fails none.
FlushBody(op, i, fail) ==
    LET logs == buffer[i]
        errors == Errors(logs)
        w1 == Write("log", RunBatch(i, logs), fail # "log")
        w2 == Write("error", ErrorBatch(i, errors), fail # "err")
    IN
    /\ fail \in {"none", "log", "err"}
    /\ fail # "none" => MayFail /\ logs # <<>>
    /\ fail = "err" => errors # <<>>
    /\ Fault(fail # "none")
    /\ IF FlushSkips(logs)
       THEN /\ UNCHANGED <<buffer, logColl, errColl>>
            /\ last' = Call(op, i, None, Returned(None), <<>>, <<>>, 0, FALSE)
       ELSE /\ buffer' = ClearBuffer(buffer, i)
            /\ logColl' = IF w1.ok THEN Append(logColl, w1.doc) ELSE logColl
            /\ errColl' = IF w1.ok /\ errors # <<>> /\ w2.ok
                          THEN Append(errColl, w2.doc) ELSE errColl
            /\ last' = Call(op, i, None,
                            IF fail = "none" THEN Returned(None) ELSE Raises(StoreErr),
                            IF ~w1.ok \/ errors = <<>> THEN <<w1>> ELSE <<w1, w2>>,
                            <<>>, 0, FALSE)

Flush(i, fail) ==
    /\ phase = "running"
    /\ FlushBody("flush", i, fail)
    /\ UNCHANGED <<config, excepthook, atexit, phase, nextSeq, threadVars>>
    /\ Recount

\* The process ends normally: the interpreter starts running the exit callbacks.
Exit ==
    /\ phase = "running"
    /\ phase' = "exiting"
    /\ last' = Call("exit", NoInst, None, Returned(None), <<>>, <<>>, 0, FALSE)
    /\ UNCHANGED <<config, buffer, logColl, errColl, excepthook, atexit, nextSeq,
                   faults, threadVars>>
    /\ Recount

\* atexit runs the callback registered last: the flush __init__ registered.  An
\* exception of a callback is printed and the next callback still runs.
AtExitFlush(fail) ==
    /\ phase = "exiting"
    /\ atexit # <<>>
    /\ FlushBody("atexit_flush", Last(atexit), fail)
    /\ atexit' = Front(atexit)
    /\ phase' = IF Len(atexit) = 1 THEN "exited" ELSE "exiting"
    /\ UNCHANGED <<config, excepthook, nextSeq, threadVars>>
    /\ Recount

\* ------------------------------------------- the uncaught-exception hook
EnableHook(i) ==
    /\ phase = "running"
    /\ excepthook' = i
    /\ last' = Call("enable_global_exception_hook", i, None, Returned(None),
                    <<>>, <<>>, 0, FALSE)
    /\ UNCHANGED <<config, buffer, logColl, errColl, atexit, phase, nextSeq, faults,
                   threadVars>>
    /\ Recount

\* handle(exc_type, exc_value, exc_tb) of instance i
HandleBody(i, e, storeOk, trackerOk) ==
    LET w == Write("error", UncaughtErrorDocument(i, e), storeOk)
        t == TrackerCall("capture_exception", trackerOk)
    IN
    IF IsKeyboardInterrupt(e)
    THEN /\ storeOk /\ trackerOk
         /\ UNCHANGED <<errColl, faults>>
         /\ last' = Call("handle", i, e, Returned(None), <<>>, <<>>, 0, TRUE)
    ELSE IF ~storeOk
    THEN /\ MayFail /\ trackerOk
         /\ errColl' = errColl
         /\ Fault(TRUE)
         /\ last' = Call("handle", i, e, Raises(StoreErr), <<w>>, <<>>, 0, FALSE)
    ELSE /\ TrackerInput(trackerOk)
         /\ errColl' = Append(errColl, w.doc)
         /\ Fault(~trackerOk)
         /\ last' = Call("handle", i, e, Outcome(t, None), <<w>>,
                         IF t = NoExc THEN <<e>> ELSE <<>>, 0, FALSE)

\* An exception reaches the top of the main thread: the interpreter calls
\* sys.excepthook and then ends the process.
Uncaught(e, storeOk, trackerOk) ==
    /\ phase = "running"
    /\ IF excepthook = NoInst
       THEN /\ storeOk /\ trackerOk
            /\ UNCHANGED <<errColl, faults>>
            /\ last' = Call("default_excepthook", NoInst, e, Returned(None),
                            <<>>, <<>>, 0, TRUE)
       ELSE HandleBody(excepthook, e, storeOk, trackerOk)
    /\ phase' = "exiting"
    /\ UNCHANGED <<config, buffer, logColl, excepthook, atexit, nextSeq, threadVars>>
    /\ Recount

\* ------------------------------------------------------- capture_errors
\* A call of capture_errors(suppress)(func): out is what func does, a return
\* value or an exception.
CallWrapped(i, f, suppress, out, trackerOk) ==
    /\ phase = "running"
    /\ IF out.kind = "return" \/ ~IsException(out.exc)
       THEN /\ trackerOk
            /\ last' = Call("wrapper", i, [f |-> f, suppress |-> suppress, out |-> out],
                            PassThrough(out), <<>>, <<>>, 0, FALSE)
            /\ UNCHANGED <<buffer, nextSeq, faults>>
       ELSE LET e == out.exc
                b1 == LoggerCall(buffer, i, "ERROR", "wrapper", WrapperMessage(f, e),
                                 nextSeq)
                b2 == [b1 EXCEPT ![i] = Append(@, WrapperRecord(i, f, e, nextSeq + 1))]
                t == TrackerCall("capture_exception", trackerOk)
            IN /\ nextSeq + 1 <= MaxRecords
               /\ TrackerInput(trackerOk)
               /\ buffer' = b2
               /\ nextSeq' = nextSeq + 2
               /\ Fault(~trackerOk)
               /\ last' = Call("wrapper", i, [f |-> f, suppress |-> suppress, out |-> out],
                               IF t # NoExc THEN Raises(t)
                               ELSE IF ~suppress THEN Raises(e) ELSE Returned(None),
                               <<>>, IF t = NoExc THEN <<e>> ELSE <<>>,
                               ConsoleLines(i), FALSE)
    /\ UNCHANGED <<config, logColl, errColl, excepthook, atexit, phase, threadVars>>
    /\ Recount

FuncOutcomes == {Returned(v) : v \in Vals} \cup {Raises(e) : e \in Raised}
FlushFails == {"none", "log", "err"}
ErrorArgs == {NoExc, ValueErr}

\* The host calls the first facade only; the second is constructed under its
\* own name and is idle.
InitOne == Init /\ name[2] = "b"

Next ==
    \/ \E level \in EmitLevels, msg \in Msgs : Emit(1, level, msg)
    \/ \E msg \in Msgs, exc \in ErrorArgs, ok \in BOOLEAN : Error(1, msg, exc, ok)
    \/ \E fail \in FlushFails : Flush(1, fail)
    \/ \E f \in Funcs, suppress \in BOOLEAN, out \in FuncOutcomes, ok \in BOOLEAN :
          CallWrapped(1, f, suppress, out, ok)
    \/ EnableHook(1)
    \/ \E e \in Raised, storeOk \in BOOLEAN, ok \in BOOLEAN : Uncaught(e, storeOk, ok)
    \/ Exit
    \/ \E fail \in FlushFails : AtExitFlush(fail)

Spec == InitOne /\ [][Next]_vars

\* The host calls both facades; the store and the tracker answer every call.
NextAll ==
    \/ \E i \in Instances, level \in EmitLevels, msg \in Msgs : Emit(i, level, msg)
    \/ \E i \in Instances, msg \in Msgs, exc \in ErrorArgs :
          Error(i, msg, exc, TRUE)
    \/ \E i \in Instances : Flush(i, "none")
    \/ \E i \in Instances, f \in Funcs, suppress \in BOOLEAN, out \in FuncOutcomes :
          CallWrapped(i, f, suppress, out, TRUE)
    \/ \E i \in Instances : EnableHook(i)
    \/ \E e \in Raised : Uncaught(e, TRUE, TRUE)
    \/ Exit
    \/ AtExitFlush("none")

SpecAll == Init /\ [][NextAll]_vars

\* The host calls both facades, which it may have constructed for one name:
\* the calls that create records, the flushes and the hook.
NextBoth ==
    \/ \E i \in Instances, level \in EmitLevels, msg \in Msgs : Emit(i, level, msg)
    \/ \E i \in Instances, f \in Funcs, suppress \in BOOLEAN :
          CallWrapped(i, f, suppress, Raises(ValueErr), TRUE)
    \/ \E i \in Instances : Flush(i, "none")
    \/ \E i \in Instances : EnableHook(i)
    \/ \E e \in Raised : Uncaught(e, TRUE, TRUE)
    \/ Exit
    \/ AtExitFlush("none")

SpecBoth == Init /\ [][NextBoth]_vars

\* A run of the first facade's host in which the interpreter, once the process
\* is ending, does run the callbacks registered with atexit.
NextExit ==
    \/ \E level \in EmitLevels, msg \in Msgs : Emit(1, level, msg)
    \/ \E msg \in Msgs, exc \in ErrorArgs, ok \in BOOLEAN : Error(1, msg, exc, ok)
    \/ \E fail \in FlushFails : Flush(1, fail)
    \/ \E f \in Funcs, suppress \in BOOLEAN :
          CallWrapped(1, f, suppress, Raises(ValueErr), TRUE)
    \/ EnableHook(1)
    \/ \E e \in Raised, storeOk \in BOOLEAN, ok \in BOOLEAN : Uncaught(e, storeOk, ok)
    \/ Exit
    \/ \E fail \in FlushFails : AtExitFlush(fail)

SpecExit ==
    InitOne /\ [][NextExit]_vars /\ WF_vars(\E fail \in FlushFails : AtExitFlush(fail))

\* ------------------------------------------------- a multi-threaded host
\* Threads of the host call the first facade.  The interpreter runs one
\* bytecode-level call at a time, so a logger call, list.copy, list.clear and
\* insert_one are each one step, and flush is a sequence of such steps with no
\* lock around it.  The store accepts every write here.
ThreadEmit(t, level, msg) ==
    /\ pc[t] = "idle"
    /\ nextSeq <= MaxRecords
    /\ buffer' = LoggerCall(buffer, 1, level, MethodOf(level), <<msg>>, nextSeq)
    /\ nextSeq' = nextSeq + 1
    /\ UNCHANGED <<config, logColl, errColl, excepthook, atexit, phase, faults, last,
                   threadVars>>
    /\ CountEmission(1)

\* if not self.buffer: return
ThreadFlushBegin(t) ==
    /\ pc[t] = "idle"
    /\ pc' = [pc EXCEPT ![t] = IF buffer[1] = <<>> THEN "idle" ELSE "copy"]
    /\ UNCHANGED <<config, buffer, logColl, errColl, excepthook, atexit, phase,
                   nextSeq, faults, last, tlogs, drains>>
    /\ UNCHANGED <<emitted, baseLen>>

\* logs = self.buffer.copy()
ThreadCopy(t) ==
    /\ pc[t] = "copy"
    /\ tlogs' = [tlogs EXCEPT ![t] = buffer[1]]
    /\ pc' = [pc EXCEPT ![t] = "clear"]
    /\ UNCHANGED <<config, buffer, logColl, errColl, excepthook, atexit, phase,
                   nextSeq, faults, last, drains>>
    /\ UNCHANGED <<emitted, baseLen>>

\* self.buffer.clear()
ThreadClear(t) ==
    /\ pc[t] = "clear"
    /\ buffer' = [buffer EXCEPT ![1] = <<>>]
    /\ drains' = Append(drains, tlogs[t])
    /\ pc' = [pc EXCEPT ![t] = "insert_log"]
    /\ UNCHANGED <<config, logColl, errColl, excepthook, atexit, phase, nextSeq,
                   faults, last, tlogs>>
    /\ Recount

\* self.log_collection.insert_one(...)
ThreadInsertLog(t) ==
    /\ pc[t] = "insert_log"
    /\ logColl' = Append(logColl, RunBatch(1, tlogs[t]))
    /\ pc' = [pc EXCEPT ![t] = "insert_err"]
    /\ UNCHANGED <<config, buffer, errColl, excepthook, atexit, phase, nextSeq,
                   faults, last, tlogs, drains>>
    /\ UNCHANGED <<emitted, baseLen>>

\* errors = [...]; if errors: self.error_collection.insert_one(...)
ThreadInsertErr(t) ==
    /\ pc[t] = "insert_err"
    /\ errColl' = IF Errors(tlogs[t]) # <<>>
                  THEN Append(errColl, ErrorBatch(1, Errors(tlogs[t]))) ELSE errColl
    /\ tlogs' = [tlogs EXCEPT ![t] = <<>>]
    /\ pc' = [pc EXCEPT ![t] = "idle"]
    /\ UNCHANGED <<config, buffer, logColl, excepthook, atexit, phase, nextSeq,
                   faults, last, drains>>
    /\ UNCHANGED <<emitted, baseLen>>

NextThreads ==
    \/ \E t \in Threads, level \in EmitLevels \cup {"ERROR"}, msg \in Msgs :
          ThreadEmit(t, level, msg)
    \/ \E t \in Threads : ThreadFlushBegin(t)
    \/ \E t \in Threads : ThreadCopy(t)
    \/ \E t \in Threads : ThreadClear(t)
    \/ \E t \in Threads : ThreadInsertLog(t)
    \/ \E t \in Threads : ThreadInsertErr(t)

SpecThreads == Init /\ [][NextThreads]_vars
\* ===================================================================
\* The claims
\* ===================================================================
FlushOps == {"flush", "atexit_flush"}
ErrorLevels == {"ERROR", "CRITICAL"}
SeqsOf(records) == {records[k].seq : k \in DOMAIN records}
PosIn(records, r) == CHOOSE k \in DOMAIN records : records[k] = r
Carries(tokens, word) == \E k \in DOMAIN tokens : tokens[k] = word

\* es holds exactly the ERROR/CRITICAL records of logs, each once, in the
\* order they have in logs.
IsErrorSubsequence(es, logs) ==
    /\ \A k \in DOMAIN es :
          es[k].level \in ErrorLevels /\ \E j \in DOMAIN logs : logs[j] = es[k]
    /\ \A j \in DOMAIN logs :
          logs[j].level \in ErrorLevels => \E k \in DOMAIN es : es[k] = logs[j]
    /\ \A a, b \in DOMAIN es : a < b => PosIn(logs, es[a]) < PosIn(logs, es[b])

\* C1: after N emission calls through an instance, with no other call in
\* between, that instance's buffer has grown by exactly N records: one per
\* call, none dropped and none added by calls made through another instance.
C1_EmissionsGrowOwnBuffer ==
    \A i \in Instances : Len(buffer[i]) = baseLen[i] + emitted[i]

\* C2: a flush of a non-empty buffer whose writes succeed appends one RunBatch
\* holding the drained records in buffer order to the primary collection, and
\* appends an ErrorBatch to the error collection iff a drained record is ERROR
\* or CRITICAL; the ErrorBatch holds exactly those records in their order.
C2_FlushWritesBatches ==
    [][(last'.op \in FlushOps /\ buffer[last'.inst] # <<>>
           /\ last'.result.kind = "return")
       => LET i == last'.inst
              logs == buffer[i]
          IN /\ logColl' = Append(logColl, [run_id |-> run_id[i], logs |-> logs])
             /\ IF \E k \in DOMAIN logs : logs[k].level \in ErrorLevels
                THEN /\ Len(errColl') = Len(errColl) + 1
                     /\ SubSeq(errColl', 1, Len(errColl)) = errColl
                     /\ DOMAIN Last(errColl') = {"run_id", "errors"}
                     /\ Last(errColl').run_id = run_id[i]
                     /\ IsErrorSubsequence(Last(errColl').errors, logs)
                ELSE errColl' = errColl]_vars

LevelsOf(records) == [k \in DOMAIN records |-> records[k].level]

\* C2's case: a flush of ERROR, INFO, CRITICAL wrote a RunBatch of the three
\* and an ErrorBatch of the two errors.
C2_Witness ==
    /\ last.op = "flush"
    /\ last.result.kind = "return"
    /\ Len(last.writes) = 2
    /\ LevelsOf(last.writes[1].doc.logs) = <<"ERROR", "INFO", "CRITICAL">>
    /\ LevelsOf(last.writes[2].doc.errors) = <<"ERROR", "CRITICAL">>
    /\ Last(logColl) = last.writes[1].doc
    /\ Last(errColl) = last.writes[2].doc

Quiescent == \A t \in Threads : pc[t] = "idle"
RECURSIVE TotalLen(_)
TotalLen(batches) ==
    IF batches = <<>> THEN 0 ELSE Len(batches[1]) + TotalLen(Tail(batches))

\* C3: with threads appending while a flush drains, at every quiescent point
\* the records of all drains plus those left in the buffer are as many as were
\* appended, and no record is in two drains.
C3_NoRecordLostOrDuplicated ==
    Quiescent =>
       /\ TotalLen(drains) + Len(buffer[1]) = nextSeq - 1
       /\ \A a, b \in DOMAIN drains :
             a # b => SeqsOf(drains[a]) \cap SeqsOf(drains[b]) = {}

\* C4: two concurrent flush calls never both extract the same record: no
\* record is in two drains, nor in two RunBatch documents.
C4_AtMostOnceExtraction ==
    /\ \A a, b \in DOMAIN drains :
          a # b => SeqsOf(drains[a]) \cap SeqsOf(drains[b]) = {}
    /\ \A a, b \in DOMAIN logColl :
          a # b => SeqsOf(logColl[a].logs) \cap SeqsOf(logColl[b].logs) = {}

\* C5: after a flush call returns or raises the buffer is empty, whichever
\* write failed, and no record a flush handed to the store is in a buffer.
C5_BufferEmptyAfterFlush ==
    /\ last.op \in FlushOps => buffer[last.inst] = <<>>
    /\ \A i \in Instances, d \in DOMAIN logColl :
          SeqsOf(buffer[i]) \cap SeqsOf(logColl[d].logs) = {}

\* C5's case: a flush of a non-empty buffer raised after its second write
\* failed, and the buffer is empty.
C5_Witness ==
    /\ last.op = "flush"
    /\ last.result = Raises(StoreErr)
    /\ last.preLen[last.inst] > 0
    /\ Len(last.writes) = 2
    /\ ~last.writes[2].ok
    /\ buffer[last.inst] = <<>>

\* C6: a flush of an empty buffer issues no write and changes nothing; so a
\* flush right after a flush of the same instance writes nothing.
C6_EmptyFlushIsNoOp ==
    [][/\ (last'.op \in FlushOps /\ buffer[last'.inst] = <<>>)
          => /\ last'.writes = <<>>
             /\ last'.result = Returned(None)
             /\ UNCHANGED <<config, buffer, logColl, errColl, excepthook, nextSeq>>
       /\ (last.op \in FlushOps /\ last'.op \in FlushOps /\ last'.inst = last.inst)
          => /\ last'.writes = <<>>
             /\ UNCHANGED <<buffer, logColl, errColl>>]_vars

\* C6's case: a flush found the buffer empty after an earlier flush had
\* written a batch.
C6_Witness ==
    /\ last.op = "flush"
    /\ last.preLen[last.inst] = 0
    /\ last.writes = <<>>
    /\ logColl # <<>>

WrapperRaised(suppress) ==
    /\ last.op = "wrapper"
    /\ last.arg.out.kind = "raise"
    /\ last.arg.out.exc.cls # "KeyboardInterrupt"
    /\ last.arg.suppress = suppress

OneTracebackRecordAdded ==
    LET b == buffer[last.inst] IN
    /\ Len(b) = last.preLen[last.inst] + 1
    /\ Last(b).level = "ERROR"
    /\ "traceback" \in DOMAIN Last(b)
    /\ Last(b).traceback # <<>>

\* C7: a wrapped callable that raises, with suppress=false: the same exception
\* leaves the wrapper and the buffer has grown by exactly one record, of level
\* ERROR and with a non-empty traceback.
C7_ReraisesSameException ==
    WrapperRaised(FALSE) =>
       /\ last.result = Raises(last.arg.out.exc)
       /\ OneTracebackRecordAdded

\* C8: a wrapped callable that raises, with suppress=true: no exception leaves
\* the wrapper, the call returns no value and the buffer has grown by exactly
\* one record, of level ERROR and with a non-empty traceback.
C8_SuppressesException ==
    WrapperRaised(TRUE) =>
       /\ last.result = Returned(None)
       /\ OneTracebackRecordAdded

\* C9: a wrapped callable that returns: the wrapper returns its value, the
\* buffers and both collections are unchanged and nothing is reported.
C9_NormalReturnIsTransparent ==
    [][(last'.op = "wrapper" /\ last'.arg.out.kind = "return")
       => /\ last'.result = last'.arg.out
          /\ last'.writes = <<>>
          /\ last'.reports = <<>>
          /\ UNCHANGED <<buffer, logColl, errColl>>]_vars

\* C9's case: a suppressing wrapper returned its callable's value while the
\* buffer held records.
C9_Witness ==
    /\ last.op = "wrapper"
    /\ last.arg.out = Returned("v")
    /\ last.arg.suppress
    /\ last.result.val = "v"
    /\ buffer[last.inst] # <<>>

IsUncaughtErrorDocument(d, i, e) ==
    /\ DOMAIN d = {"run_id", "error_type", "error", "traceback", "script"}
    /\ Carries(d.error_type, e.cls)
    /\ d.error = <<e.msg>>
    /\ d.traceback # <<>>
    /\ Carries(d.traceback, e.cls)
    /\ d.run_id = run_id[i]

\* C10: with the hook installed, an uncaught exception that is no interrupt
\* makes the installed instance's handler issue exactly one write, of an
\* UncaughtErrorDocument with the exception's type name, message, traceback and
\* the instance's run_id, to the error collection, where it is the one
\* document added; an interrupt goes to the default handler, with no write and
\* no report.
C10_HookWritesOneDocument ==
    [][/\ last'.op = "default_excepthook" => excepthook = NoInst
       /\ last'.op = "handle"
          => LET e == last'.arg
                 i == last'.inst
                 ws == last'.writes
             IN /\ i = excepthook
                /\ i # NoInst
                /\ UNCHANGED <<buffer, logColl>>
                /\ IF e.cls = "KeyboardInterrupt"
                   THEN /\ last'.dflt
                        /\ ws = <<>>
                        /\ last'.reports = <<>>
                        /\ errColl' = errColl
                   ELSE /\ ~last'.dflt
                        /\ Len(ws) = 1
                        /\ ws[1].coll = "error"
                        /\ IsUncaughtErrorDocument(ws[1].doc, i, e)
                        /\ errColl' = IF ws[1].ok THEN Append(errColl, ws[1].doc)
                                      ELSE errColl]_vars

\* C10's case: the installed handler wrote the document of a ValueError.
C10_Witness ==
    /\ last.op = "handle"
    /\ last.arg = ValueErr
    /\ errColl # <<>>
    /\ Last(errColl) = last.writes[1].doc
    /\ Last(errColl).error = <<"boom">>

StoreWriteFailed == \E k \in DOMAIN last.writes : ~last.writes[k].ok

\* C11: a store write that fails during flush is not raised to flush's caller
\* (the exit-time caller included) but surfaced on the console or to the
\* tracker, and the failure of one write does not keep the other from being
\* attempted: a flush that drained an ERROR or CRITICAL record issues both.
C11_FlushSurfacesWriteFailure ==
    (last.op \in FlushOps /\ last.preLen[last.inst] > 0) =>
       /\ last.result.kind = "return"
       /\ StoreWriteFailed => (last.console > 0 \/ last.reports # <<>>)
       /\ (\E k \in DOMAIN last.writes[1].doc.logs :
              last.writes[1].doc.logs[k].level \in ErrorLevels)
          => Len(last.writes) = 2

EmissionOps == {"debug", "info", "warning", "error", "critical"}

\* C12: an emission call never raises: when the tracker's report fails during
\* error(msg, exc) the failure is swallowed, and the call's record is in the
\* buffer all the same.
C12_EmissionNeverRaises ==
    last.op \in EmissionOps =>
       /\ last.result = Returned(None)
       /\ LET o == handlerOwner[name[last.inst]] IN
          /\ Len(buffer[o]) = last.preLen[o] + 1
          /\ MethodOf(Last(buffer[o]).level) = last.op

\* C13: with the tracker absent every operation behaves as with the tracker
\* present, less the report: error() appends its record and returns, the
\* wrapper appends its records and re-raises the callable's exception or
\* suppresses it, and the hook writes its document and returns.
C13_TrackerAbsentOnlySkipsReport ==
    ~sentryAvailable =>
       /\ last.reports = <<>>
       /\ last.op = "error" =>
             /\ last.result = Returned(None)
             /\ Len(buffer[last.inst]) = last.preLen[last.inst] + 1
       /\ \A suppress \in BOOLEAN : WrapperRaised(suppress) =>
             /\ last.result = IF suppress THEN Returned(None)
                              ELSE Raises(last.arg.out.exc)
             /\ Len(buffer[last.inst]) = last.preLen[last.inst] + 2
       /\ (last.op = "handle" /\ ~IsKeyboardInterrupt(last.arg)
             /\ ~StoreWriteFailed) =>
             /\ last.result = Returned(None)
             /\ Len(last.writes) = 1
             /\ Last(errColl) = last.writes[1].doc

ExitCallbackRan(i) ==
    /\ last'.op = "atexit_flush"
    /\ last'.inst = i
    /\ atexit = Append(atexit', i)
    /\ buffer' = [buffer EXCEPT ![i] = <<>>]
    /\ buffer[i] # <<>> =>
          /\ Len(last'.writes) >= 1
          /\ last'.writes[1].coll = "log"
          /\ last'.writes[1].doc.logs = buffer[i]

\* C14: the flush of every constructed instance is registered to run at exit;
\* once a run is ending, each step of the exit runs the registered flush of one
\* instance, which drains that instance's buffer and hands all of its records
\* to a write of the primary collection; the run does reach its end, with every
\* registered flush run and every buffer empty.
C14_ExitFlushDrains ==
    /\ [](phase = "running" =>
             \A i \in Instances : \E k \in DOMAIN atexit : atexit[k] = i)
    /\ [][phase = "exiting" => \E i \in Instances : ExitCallbackRan(i)]_vars
    /\ (phase = "exiting") ~>
          (phase = "exited" /\ atexit = <<>> /\ \A i \in Instances : buffer[i] = <<>>)

C14_Witness ==
    /\ phase = "exited"
    /\ last.op = "atexit_flush"
    /\ last.inst = 1
    /\ last.preLen[1] > 0
    /\ Len(last.writes) >= 1
    /\ buffer[1] = <<>>

SameNameConstructed == \E i, j \in Instances : i # j /\ name[i] = name[j]

\* C15: where two instances were constructed for one name, an emission call
\* through either of them prints exactly one console line and appends exactly
\* one record, to the buffer of the instance it was called on and to no other.
C15_SecondConstructionIsSafe ==
    (SameNameConstructed /\ last.op \in EmissionOps) =>
       /\ last.console = 1
       /\ \A j \in Instances :
             Len(buffer[j]) = last.preLen[j] + (IF j = last.inst THEN 1 ELSE 0)

\* C16: a wrapped callable raises: the buffer gains exactly two records, first
\* the emitter's ERROR record whose message names the callable and carries the
\* exception's text, then the record with function = the callable's name,
\* message = the exception's text and a traceback; the exception is reported
\* to the tracker; and then it leaves the wrapper (suppress=false) or the
\* wrapper returns no value (suppress=true).
C16_WrapperSideEffectsInOrder ==
    \A suppress \in BOOLEAN : WrapperRaised(suppress) =>
       LET b == buffer[last.inst]
           n == last.preLen[last.inst]
           f == last.arg.f
           e == last.arg.out.exc
       IN /\ Len(b) = n + 2
          /\ b[n + 1].level = "ERROR"
          /\ "traceback" \notin DOMAIN b[n + 1]
          /\ Carries(b[n + 1].message, f)
          /\ Carries(b[n + 1].message, e.msg)
          /\ b[n + 2].level = "ERROR"
          /\ b[n + 2].function = f
          /\ b[n + 2].message = StrOfExc(e)
          /\ b[n + 2].traceback # <<>>
          /\ last.reports = <<e>>
          /\ last.result = IF suppress THEN Returned(None) ELSE Raises(e)

RECURSIVE ConcatLogs(_)
ConcatLogs(batches) ==
    IF batches = <<>> THEN <<>>
    ELSE ConcatLogs(Front(batches)) \o Last(batches).logs

\* The records of the first instance that left its buffer for the primary
\* collection, followed by those still in its buffer.
History == ConcatLogs(logColl) \o buffer[1]

\* C17: calls on one instance from one thread, the store accepting every
\* write: the logs of the RunBatch documents, concatenated in the order
\* written and followed by the buffer, are the records appended since
\* construction in append order, each once; a call whose writes succeed
\* extends that sequence by the records it appends and changes nothing of it;
\* and a flush of a non-empty buffer writes exactly one RunBatch, any other
\* call none.
C17_BatchesAreTheAppendedRecords ==
    /\ [](faults = 0 =>
             /\ Len(History) = nextSeq - 1
             /\ \A k \in DOMAIN History : History[k].seq = k
             /\ \A k \in DOMAIN logColl : logColl[k].logs # <<>>)
    /\ [][~StoreWriteFailed' =>
             /\ Len(History') = Len(History) + (nextSeq' - nextSeq)
             /\ SubSeq(History', 1, Len(History)) = History
             /\ Len(logColl') = Len(logColl) +
                   (IF last'.op \in FlushOps /\ buffer[last'.inst] # <<>>
                    THEN 1 ELSE 0)]_vars

C17_Witness ==
    /\ faults = 0
    /\ Len(logColl) = 2
    /\ buffer[1] # <<>>
    /\ last.op \in EmissionOps

Range(s) == {s[k] : k \in DOMAIN s}
RecordsIn(doc) ==
    IF "logs" \in DOMAIN doc THEN Range(doc.logs)
    ELSE IF "errors" \in DOMAIN doc THEN Range(doc.errors)
    ELSE {}
BatchedRecords ==
    UNION ({RecordsIn(logColl[k]) : k \in DOMAIN logColl}
           \cup {RecordsIn(errColl[k]) : k \in DOMAIN errColl})
RecordsHeld == BatchedRecords \cup UNION {Range(buffer[i]) : i \in Instances}

\* C18: a run of the hook's handler leaves every buffer as it was, creates no
\* record, issues no write to the primary collection, adds no record to any
\* batch, and does not raise the exception it was given; and from the hook's
\* trigger on, no record that the buffers and batches did not hold already
\* appears in a buffer, a RunBatch or an ErrorBatch.
C18_HookBypassesBuffer ==
    [][/\ last'.op = "handle" =>
             /\ buffer' = buffer
             /\ nextSeq' = nextSeq
             /\ logColl' = logColl
             /\ \A k \in DOMAIN last'.writes : last'.writes[k].coll # "log"
             /\ BatchedRecords' = BatchedRecords
             /\ last'.result # Raises(last'.arg)
       /\ phase # "running" => RecordsHeld' \subseteq RecordsHeld]_vars

C18_Witness ==
    /\ phase = "exited"
    /\ last.op = "atexit_flush"
    /\ last.inst = 1
    /\ Len(last.writes) = 2
    /\ logColl # <<>>
    /\ \E k \in DOMAIN errColl : "script" \in DOMAIN errColl[k]
    /\ \E k \in DOMAIN errColl : "errors" \in DOMAIN errColl[k]

AllCarry(records, rid) == \A k \in DOMAIN records : records[k].run_id = rid

\* C19: every record in an instance's buffer carries that instance's run_id;
\* every RunBatch and ErrorBatch carries the run_id of each record it holds,
\* every document a flush writes carries the flushing instance's run_id, and
\* an UncaughtErrorDocument carries the run_id of the instance whose hook is
\* installed; with two instances, of one name or of two.
C19_RunIdConsistent ==
    /\ \A i \in Instances : AllCarry(buffer[i], run_id[i])
    /\ \A k \in DOMAIN logColl : AllCarry(logColl[k].logs, logColl[k].run_id)
    /\ \A k \in DOMAIN errColl :
          IF "errors" \in DOMAIN errColl[k]
          THEN AllCarry(errColl[k].errors, errColl[k].run_id)
          ELSE excepthook # NoInst /\ errColl[k].run_id = run_id[excepthook]
    /\ last.op \in FlushOps \cup {"handle"} =>
          \A k \in DOMAIN last.writes : last.writes[k].doc.run_id = run_id[last.inst]

C19_Witness ==
    /\ name[1] = name[2]
    /\ phase = "exited"
    /\ \E k \in DOMAIN logColl : logColl[k].run_id = run_id[1]
    /\ \E k \in DOMAIN logColl : logColl[k].run_id = run_id[2]
    /\ \E k \in DOMAIN errColl : "errors" \in DOMAIN errColl[k]
    /\ \E k \in DOMAIN errColl : "script" \in DOMAIN errColl[k]
====
